---- MODULE Spec2Model ----
(***************************************************************************)
(* A model of rivia-file (src/src/lib.rs): regex driven extraction from,   *)
(* and line insertion into, files held by the rivia-vfs store.             *)
(*                                                                         *)
(* Text is a sequence of characters.  The store keeps each file as text;   *)
(* vfs::read_all hands the text out as it is, vfs::read_lines splits it at *)
(* the line terminators and vfs::write_lines terminates every line.        *)
(***************************************************************************)
EXTENDS Integers, Sequences, FiniteSets, TLC

\* ------------------------------------------------------------------ bounds
\* Longest text of a file in the initial store.
MaxText == 2
\* Most lines handed to one insert_lines call.
MaxNew == 2
\* Largest offset handed to insert_lines; the smallest is its negative.
MaxOffset == 2
\* Calls made in one run: a caller makes one call, and may then make a call
\* that succeeded again.
MaxCalls == 2

\* ------------------------------------------------------------------- text
NL == "\n"
Letters == {"a", "b"}
Chars == Letters \cup {NL}

SeqUpTo(S, n) == UNION {[1..k -> S] : k \in 0..n}

\* Texts a file starts with, and the lines a caller may hand in.
Texts == SeqUpTo(Chars, MaxText)
NewLines == {<<"a">>, <<"b">>}
MinOffset == 0 - MaxOffset
Offsets == MinOffset..MaxOffset

\* vfs::read_lines: the text split at the line terminators, which are
\* dropped; text after the last terminator is a last line.
RECURSIVE SplitLines(_, _)
SplitLines(text, cur) ==
    IF text = <<>> THEN (IF cur = <<>> THEN <<>> ELSE <<cur>>)
    ELSE IF Head(text) = NL THEN <<cur>> \o SplitLines(Tail(text), <<>>)
    ELSE SplitLines(Tail(text), Append(cur, Head(text)))

ReadLinesText(text) == SplitLines(text, <<>>)

\* vfs::write_lines: every line followed by a line terminator.
RECURSIVE JoinLines(_)
JoinLines(lines) ==
    IF lines = <<>> THEN <<>>
    ELSE Head(lines) \o <<NL>> \o JoinLines(Tail(lines))

\* ------------------------------------------------------------------ regex
\* An expression is a sequence of tokens: a letter, "(" ")" around letters
\* (a capture group), "?" after a letter or a group (optional, greedy) and
\* "[" (which opens a character class that nothing closes).
NoPieces == <<>>
BadRegex == [ok |-> FALSE, pieces |-> NoPieces]

\* Index of the first ")" at or after i, 0 when there is none.
RECURSIVE CloseAt(_, _)
CloseAt(e, i) ==
    IF i > Len(e) THEN 0
    ELSE IF e[i] = ")" THEN i
    ELSE CloseAt(e, i + 1)

OnlyLetters(s) == \A k \in 1..Len(s) : s[k] \in Letters

\* Regex::new: the compiled pieces, or an error.
RECURSIVE ParseFrom(_, _, _)
ParseFrom(e, i, acc) ==
    IF i > Len(e) THEN [ok |-> TRUE, pieces |-> acc]
    ELSE IF e[i] \in Letters THEN
        LET opt == i + 1 <= Len(e) /\ e[i + 1] = "?"
        IN ParseFrom(e, IF opt THEN i + 2 ELSE i + 1,
                     Append(acc, [chars |-> <<e[i]>>, group |-> FALSE, opt |-> opt]))
    ELSE IF e[i] = "(" THEN
        LET j == CloseAt(e, i + 1)
        IN IF j = 0 \/ ~OnlyLetters(SubSeq(e, i + 1, j - 1)) THEN BadRegex
           ELSE LET opt == j + 1 <= Len(e) /\ e[j + 1] = "?"
                IN ParseFrom(e, IF opt THEN j + 2 ELSE j + 1,
                             Append(acc, [chars |-> SubSeq(e, i + 1, j - 1),
                                          group |-> TRUE, opt |-> opt]))
    ELSE BadRegex

RegexNew(e) == ParseFrom(e, 1, NoPieces)

\* A capture group of a match: the span [s, e) of the text, or none.
NoGroup == [some |-> FALSE, s |-> 0, e |-> 0]
Span(s, e) == [some |-> TRUE, s |-> s, e |-> e]
NoMatch == [ok |-> FALSE, end |-> 0, caps |-> <<>>]

GroupText(text, g) == SubSeq(text, g.s, g.e - 1)

\* The pieces from the k-th on matched at pos: a piece that fits is taken
\* before it is skipped (greedy), and skipped only when optional.
RECURSIVE MatchFrom(_, _, _, _, _)
MatchFrom(ps, k, text, pos, caps) ==
    IF k > Len(ps) THEN [ok |-> TRUE, end |-> pos, caps |-> caps]
    ELSE LET p == ps[k]
             n == Len(p.chars)
             fits == pos + n - 1 <= Len(text) /\ SubSeq(text, pos, pos + n - 1) = p.chars
             take == IF fits
                     THEN MatchFrom(ps, k + 1, text, pos + n,
                                    IF p.group THEN Append(caps, Span(pos, pos + n)) ELSE caps)
                     ELSE NoMatch
             skip == IF p.opt
                     THEN MatchFrom(ps, k + 1, text, pos,
                                    IF p.group THEN Append(caps, NoGroup) ELSE caps)
                     ELSE NoMatch
         IN IF take.ok THEN take ELSE skip

\* The match starting exactly at pos; group 0, the whole match, comes first.
MatchAt(rx, text, pos) ==
    LET m == MatchFrom(rx.pieces, 1, text, pos, <<>>)
    IN IF m.ok THEN [ok |-> TRUE, end |-> m.end, caps |-> <<Span(pos, m.end)>> \o m.caps]
       ELSE NoMatch

\* The leftmost match starting at or after pos.
RECURSIVE FindAt(_, _, _)
FindAt(rx, text, pos) ==
    IF pos > Len(text) + 1 THEN NoMatch
    ELSE LET m == MatchAt(rx, text, pos)
         IN IF m.ok THEN m ELSE FindAt(rx, text, pos + 1)

\* Regex::captures
Captures(rx, text) == FindAt(rx, text, 1)

\* Regex::is_match
IsMatch(rx, text) == Captures(rx, text).ok

\* Regex::captures_iter: the successive matches, none overlapping; an empty
\* match right at the end of the match before it is passed over.
RECURSIVE CapturesFrom(_, _, _, _)
CapturesFrom(rx, text, last_end, last_match) ==
    IF last_end > Len(text) + 1 THEN <<>>
    ELSE LET m == FindAt(rx, text, last_end)
         IN IF ~m.ok THEN <<>>
            ELSE LET s == m.caps[1].s
                     e == m.end
                 IN IF s = e
                    THEN (IF e = last_match
                          THEN CapturesFrom(rx, text, e + 1, last_match)
                          ELSE <<m.caps>> \o CapturesFrom(rx, text, e + 1, e))
                    ELSE <<m.caps>> \o CapturesFrom(rx, text, e, e)

CapturesIter(rx, text) == CapturesFrom(rx, text, 1, 0)


\* -------------------------------------------------------------- the store
\* One path of the store is modelled, "file"; the other path a caller may
\* hand in is the empty one.
Paths == {"", "file"}
Procs == {1, 2}

Missing == [kind |-> "missing", text |-> <<>>, mtime |-> 0]
Dir == [kind |-> "dir", text |-> <<>>, mtime |-> 0]
File(text) == [kind |-> "file", text |-> text, mtime |-> 0]

\* The error of a read of path, "" when the path is a file.
PathError(node, path) ==
    IF path = "" THEN "PathEmpty"
    ELSE IF node.kind = "missing" THEN "DoesNotExist"
    ELSE IF node.kind = "dir" THEN "IsNotFile"
    ELSE ""

\* vfs::read_all
ReadAll(node, path) ==
    LET err == PathError(node, path)
    IN [ok |-> err = "", err |-> err, text |-> IF err = "" THEN node.text ELSE <<>>]

\* vfs::read_lines
ReadLines(node, path) ==
    LET err == PathError(node, path)
    IN [ok |-> err = "", err |-> err,
        lines |-> IF err = "" THEN ReadLinesText(node.text) ELSE <<>>]

\* vfs::append_lines in the place of vfs::write_lines: the text is kept.
AppendLines(node, lines) ==
    [kind |-> "file", text |-> node.text \o JoinLines(lines), mtime |-> node.mtime + 1]

\* vfs::write_lines on a file: the whole text is replaced.
WriteLines(node, lines) ==
    [kind |-> "file", text |-> JoinLines(lines), mtime |-> node.mtime + 1]

\* vfs::write_all on a file.
WriteAll(node, text) ==
    [kind |-> "file", text |-> text, mtime |-> node.mtime + 1]

\* ---------------------------------------------------------------- results
Ok(val) == [ok |-> TRUE, err |-> "", val |-> val]
Err(e) == [ok |-> FALSE, err |-> e, val |-> <<>>]
Panic == [ok |-> FALSE, err |-> "panic", val |-> <<>>]
NoResult == [ok |-> FALSE, err |-> "none", val |-> <<>>]

\* ---------------------------------------------------------------- extract
\* The first group 1 that took part in any match, in the place of group 1
\* of the first match.
RECURSIVE FirstGroup1(_, _)
FirstGroup1(text, caps) ==
    IF caps = <<>> THEN Err("FailedToExtractString")
    ELSE IF Len(Head(caps)) >= 2 /\ Head(caps)[2].some
    THEN Ok(GroupText(text, Head(caps)[2]))
    ELSE FirstGroup1(text, Tail(caps))

extract_rx_any(node, path, rx) ==
    LET data == ReadAll(node, path)
    IN IF ~data.ok THEN Err(data.err)
       ELSE FirstGroup1(data.text, CapturesIter(rx, data.text))

\* extract_rx: group 1 of the first match.
extract_rx(node, path, rx) ==
    LET data == ReadAll(node, path)
        caps == Captures(rx, data.text)
    IN IF ~data.ok THEN Err(data.err)
       ELSE IF ~caps.ok THEN Err("FailedToExtractString")
       ELSE IF Len(caps.caps) < 2 \/ ~caps.caps[2].some THEN Err("FailedToExtractString")
       ELSE Ok(GroupText(data.text, caps.caps[2]))

extract(node, path, e) ==
    LET rx == RegexNew(e)
    IN IF ~rx.ok THEN Err("FailedToExtractString") ELSE extract_rx(node, path, rx)

\* cap.iter().filter_map(..): the text of every group of one match that took
\* part, group 0 first.
RECURSIVE GroupTexts(_, _)
GroupTexts(text, cap) ==
    IF cap = <<>> THEN <<>>
    ELSE (IF Head(cap).some THEN <<GroupText(text, Head(cap))>> ELSE <<>>)
         \o GroupTexts(text, Tail(cap))

RECURSIVE AppendAll(_, _)
AppendAll(text, caps) ==
    IF caps = <<>> THEN <<>>
    ELSE GroupTexts(text, Head(caps)) \o AppendAll(text, Tail(caps))

\* extract_all_rx
extract_all_rx(node, path, rx) ==
    LET data == ReadAll(node, path)
    IN IF ~data.ok THEN Err(data.err)
       ELSE Ok(AppendAll(data.text, CapturesIter(rx, data.text)))

extract_all(node, path, e) ==
    LET rx == RegexNew(e)
    IN IF ~rx.ok THEN Err("FailedToExtractString") ELSE extract_all_rx(node, path, rx)

\* ---------------------------------------------------------------- replace
\* The value of a replacement for one match: "$" "1" stands for group 1 (for
\* nothing when it took no part) unless the value is literal.
RECURSIVE Expand(_, _, _, _)
Expand(value, text, cap, literal) ==
    IF value = <<>> THEN <<>>
    ELSE IF ~literal /\ Head(value) = "$" /\ Len(value) >= 2 /\ value[2] = "1"
    THEN (IF Len(cap) >= 2 /\ cap[2].some THEN GroupText(text, cap[2]) ELSE <<>>)
         \o Expand(Tail(Tail(value)), text, cap, literal)
    ELSE <<Head(value)>> \o Expand(Tail(value), text, cap, literal)

\* The text with every match, from pos on, replaced.
RECURSIVE Substitute(_, _, _, _, _)
Substitute(text, caps, pos, value, literal) ==
    IF caps = <<>> THEN SubSeq(text, pos, Len(text))
    ELSE LET g == Head(caps)[1]
         IN SubSeq(text, pos, g.s - 1) \o Expand(value, text, Head(caps), literal)
            \o Substitute(text, Tail(caps), g.e, value, literal)

\* replace_all and replace_all_literal: what is returned, the node afterwards
\* and what was asked of the store.
ReplaceAlways(node, path, e, value, literal) ==
    LET rx == RegexNew(e)
        data == ReadAll(node, path)
        new == Substitute(data.text, CapturesIter(rx, data.text), 1, value, literal)
    IN IF ~rx.ok THEN [res |-> Err("InvalidPattern"), node |-> node, io |-> <<>>]
       ELSE IF ~data.ok THEN [res |-> Err(data.err), node |-> node, io |-> <<"read_all">>]
       ELSE [res |-> Ok(<<>>), node |-> WriteAll(node, new), io |-> <<"read_all", "write_all">>]

replace_all(node, path, e, value, literal) ==
    LET rx == RegexNew(e)
        data == ReadAll(node, path)
        new == Substitute(data.text, CapturesIter(rx, data.text), 1, value, literal)
    IN IF ~rx.ok THEN [res |-> Err("InvalidPattern"), node |-> node, io |-> <<>>]
       ELSE IF ~data.ok THEN [res |-> Err(data.err), node |-> node, io |-> <<"read_all">>]
       ELSE IF new # data.text
       THEN [res |-> Ok(<<>>), node |-> WriteAll(node, new), io |-> <<"read_all", "write_all">>]
       ELSE [res |-> Ok(<<>>), node |-> node, io |-> <<"read_all">>]

\* ----------------------------------------------------------- insert_lines
\* The loop over f_lines without its break: the last line that matches.
RECURSIVE FirstMatchLast(_, _, _)
FirstMatchLast(rx, f_lines, i) ==
    IF i >= Len(f_lines) THEN 0 - 1
    ELSE LET later == FirstMatchLast(rx, f_lines, i + 1)
         IN IF later # 0 - 1 THEN later
            ELSE IF IsMatch(rx, f_lines[i + 1]) THEN i
            ELSE 0 - 1

\* The loop over f_lines: the index of the first line that matches, or -1.
RECURSIVE FirstMatch(_, _, _)
FirstMatch(rx, f_lines, i) ==
    IF i >= Len(f_lines) THEN 0 - 1
    ELSE IF IsMatch(rx, f_lines[i + 1]) THEN i
    ELSE FirstMatch(rx, f_lines, i + 1)

\* Vec::insert(i, x), for i <= len.
VecInsert(v, i, x) == SubSeq(v, 1, i) \o <<x>> \o SubSeq(v, i + 1, Len(v))

\* The loop over lines, passing over a line that is at i already.
RECURSIVE InsertEachSkip(_, _, _)
InsertEachSkip(f_lines, lines, i) ==
    IF lines = <<>> THEN [panic |-> FALSE, lines |-> f_lines]
    ELSE IF i > Len(f_lines) THEN [panic |-> TRUE, lines |-> f_lines]
    ELSE IF i < Len(f_lines) /\ f_lines[i + 1] = Head(lines)
    THEN InsertEachSkip(f_lines, Tail(lines), i + 1)
    ELSE InsertEachSkip(VecInsert(f_lines, i, Head(lines)), Tail(lines), i + 1)

\* The loop over lines: each is inserted at i, and i moves on. Vec::insert
\* panics when i is beyond the end.
RECURSIVE InsertEach(_, _, _)
InsertEach(f_lines, lines, i) ==
    IF lines = <<>> THEN [panic |-> FALSE, lines |-> f_lines]
    ELSE IF i > Len(f_lines) THEN [panic |-> TRUE, lines |-> f_lines]
    ELSE InsertEach(VecInsert(f_lines, i, Head(lines)), Tail(lines), i + 1)

\* insert_lines_rx without the lower bound of its validation: the index
\* wraps around, far beyond the end.
insert_lines_rx_unchecked(node, path, lines, rx, offset) ==
    LET rd == ReadLines(node, path)
        loc == FirstMatch(rx, rd.lines, 0)
        i == IF loc + offset < 0 THEN Len(rd.lines) + 1 ELSE loc + offset
        ins == InsertEach(rd.lines, lines, i)
    IN IF ~rd.ok
       THEN [done |-> TRUE, res |-> Err(rd.err), f_lines |-> <<>>, io |-> <<"read_lines">>]
       ELSE IF loc = 0 - 1
       THEN [done |-> TRUE, res |-> Err("InsertLocationNotFound"), f_lines |-> <<>>,
             io |-> <<"read_lines">>]
       ELSE IF ins.panic
       THEN [done |-> TRUE, res |-> Panic, f_lines |-> <<>>, io |-> <<"read_lines">>]
       ELSE [done |-> FALSE, res |-> NoResult, f_lines |-> ins.lines, io |-> <<"read_lines">>]

\* insert_lines_rx up to its write: what it returns at once (done), or the
\* lines it goes on to write; io is what it asked of the store.
insert_lines_rx(node, path, lines, rx, offset) ==
    LET rd == ReadLines(node, path)
        loc == FirstMatch(rx, rd.lines, 0)
        ins == InsertEach(rd.lines, lines, loc + offset)
    IN IF ~rd.ok
       THEN [done |-> TRUE, res |-> Err(rd.err), f_lines |-> <<>>, io |-> <<"read_lines">>]
       ELSE IF loc = 0 - 1 \/ loc + offset < 0
       THEN [done |-> TRUE, res |-> Err("InsertLocationNotFound"), f_lines |-> <<>>,
             io |-> <<"read_lines">>]
       ELSE IF ins.panic
       THEN [done |-> TRUE, res |-> Panic, f_lines |-> <<>>, io |-> <<"read_lines">>]
       ELSE [done |-> FALSE, res |-> NoResult, f_lines |-> ins.lines, io |-> <<"read_lines">>]

\* insert_lines compiling its expression only after the read.
insert_lines_lazy(node, path, lines, e, offset) ==
    LET rx == RegexNew(e)
        rd == ReadLines(node, path)
    IN IF ~rd.ok
       THEN [done |-> TRUE, res |-> Err(rd.err), f_lines |-> <<>>, io |-> <<"read_lines">>]
       ELSE IF ~rx.ok
       THEN [done |-> TRUE, res |-> Err("FailedToExtractString"), f_lines |-> <<>>,
             io |-> <<"read_lines">>]
       ELSE insert_lines_rx(node, path, lines, rx, offset)

insert_lines(node, path, lines, e, offset) ==
    LET rx == RegexNew(e)
    IN IF ~rx.ok
       THEN [done |-> TRUE, res |-> Err("FailedToExtractString"), f_lines |-> <<>>, io |-> <<>>]
       ELSE insert_lines_rx(node, path, lines, rx, offset)


\* ------------------------------------------------------------------ state
VARIABLES
    fs,        \* the store's node at path "file": kind, text, count of writes
    active,    \* the callers that run
    pc,        \* per caller: "idle", "write" (read, not yet written), "done", "panicked"
    args,      \* per caller: the arguments of its call
    f_lines,   \* per caller: insert_lines_rx's f_lines, as it will be written
    result,    \* per caller: what its call returned
    pre,       \* per caller: the node when its call began
    io,        \* per caller: what its call asked of the store, in order
    repeat,    \* per caller: its call repeats the successful call before it
    wrote,     \* per caller: the node's count of writes after its call's write
    ncalls     \* calls made so far

vars == <<fs, active, pc, args, f_lines, result, pre, io, repeat, wrote, ncalls>>

\* Expressions handed to insert_lines, and to the extractors.
LineExprs == {<<>>, <<"a">>, <<"[">>}
Exprs == LineExprs \cup
         {<<"a", "b">>, <<"(", "a", ")">>, <<"(", "a", ")", "?", "b">>,
          <<"(", "a", ")", "(", "b", ")">>, <<"a", "(", "b", ")">>, <<"(", "a", ")", "?">>,
          <<"(", "a">>}

NoArgs == [op |-> "none", path |-> "", lines |-> <<>>, rx |-> <<>>, offset |-> 0, value |-> <<>>]

Nodes == {Missing, Dir} \cup {File(t) : t \in Texts}

InitWith(callers) ==
    /\ fs \in Nodes
    /\ active = callers
    /\ pc = [p \in Procs |-> "idle"]
    /\ args = [p \in Procs |-> NoArgs]
    /\ f_lines = [p \in Procs |-> <<>>]
    /\ result = [p \in Procs |-> NoResult]
    /\ pre = [p \in Procs |-> Missing]
    /\ io = [p \in Procs |-> <<>>]
    /\ repeat = [p \in Procs |-> FALSE]
    /\ wrote = [p \in Procs |-> 0]
    /\ ncalls = 0

\* One caller: every call runs to its end before the next begins.
Init == InitWith({1})
\* Two callers, with nothing that serializes them.
InitConc == InitWith(Procs)

CanCall(p) == p \in active /\ pc[p] = "idle" /\ ncalls < MaxCalls

\* insert_lines with arguments a, from the call to the return or to the point
\* before its write.
InsertCall(p, a, again) ==
    LET r == insert_lines(fs, a.path, a.lines, a.rx, a.offset)
    IN /\ args' = [args EXCEPT ![p] = a]
       /\ pre' = [pre EXCEPT ![p] = fs]
       /\ repeat' = [repeat EXCEPT ![p] = again]
       /\ io' = [io EXCEPT ![p] = r.io]
       /\ f_lines' = [f_lines EXCEPT ![p] = r.f_lines]
       /\ wrote' = [wrote EXCEPT ![p] = 0]
       /\ result' = [result EXCEPT ![p] = r.res]
       /\ pc' = [pc EXCEPT ![p] = IF ~r.done THEN "write"
                                  ELSE IF r.res = Panic THEN "panicked" ELSE "done"]
       /\ ncalls' = ncalls + 1
       /\ UNCHANGED <<fs, active>>

\* A call of insert_lines.
InsertLines(p) ==
    /\ CanCall(p)
    /\ \E path \in Paths, lines \in SeqUpTo(NewLines, MaxNew), e \in LineExprs, offset \in Offsets :
        InsertCall(p, [op |-> "insert_lines", path |-> path, lines |-> lines, rx |-> e,
                       offset |-> offset, value |-> <<>>], FALSE)

\* The caller makes the insert_lines call that has just succeeded once more.
InsertAgain(p) ==
    /\ p \in active /\ pc[p] = "done" /\ ncalls < MaxCalls
    /\ args[p].op = "insert_lines" /\ result[p].ok
    /\ InsertCall(p, args[p], TRUE)

\* The write left out when f_lines are the lines of the file already.
InsertWriteSuppress(p) ==
    /\ p \in active
    /\ pc[p] = "write"
    /\ IF f_lines[p] = ReadLinesText(fs.text)
       THEN UNCHANGED <<fs, io, wrote>>
       ELSE /\ fs' = WriteLines(fs, f_lines[p])
            /\ io' = [io EXCEPT ![p] = Append(@, "write_lines")]
            /\ wrote' = [wrote EXCEPT ![p] = fs'.mtime]
    /\ result' = [result EXCEPT ![p] = Ok(<<>>)]
    /\ pc' = [pc EXCEPT ![p] = "done"]
    /\ UNCHANGED <<active, args, f_lines, pre, repeat, ncalls>>

\* insert_lines_rx's write of f_lines, and its return.
InsertWrite(p) ==
    /\ p \in active
    /\ pc[p] = "write"
    /\ fs' = WriteLines(fs, f_lines[p])
    /\ io' = [io EXCEPT ![p] = Append(@, "write_lines")]
    /\ wrote' = [wrote EXCEPT ![p] = fs'.mtime]
    /\ result' = [result EXCEPT ![p] = Ok(<<>>)]
    /\ pc' = [pc EXCEPT ![p] = "done"]
    /\ UNCHANGED <<active, args, f_lines, pre, repeat, ncalls>>

\* A call of a function that only reads, with arguments a and result r.
ReadOnlyCall(p, a, r) ==
    /\ args' = [args EXCEPT ![p] = a]
    /\ pre' = [pre EXCEPT ![p] = fs]
    /\ repeat' = [repeat EXCEPT ![p] = FALSE]
    /\ io' = [io EXCEPT ![p] = IF RegexNew(a.rx).ok THEN <<"read_all">> ELSE <<>>]
    /\ result' = [result EXCEPT ![p] = r]
    /\ pc' = [pc EXCEPT ![p] = "done"]
    /\ ncalls' = ncalls + 1
    /\ UNCHANGED <<fs, active, f_lines, wrote>>

Extract(p) ==
    /\ CanCall(p)
    /\ \E path \in Paths, e \in Exprs :
        LET a == [op |-> "extract", path |-> path, lines |-> <<>>, rx |-> e, offset |-> 0,
                  value |-> <<>>]
        IN ReadOnlyCall(p, a, extract(fs, path, e))

ExtractAll(p) ==
    /\ CanCall(p)
    /\ \E path \in Paths, e \in Exprs :
        LET a == [op |-> "extract_all", path |-> path, lines |-> <<>>, rx |-> e, offset |-> 0,
                  value |-> <<>>]
        IN ReadOnlyCall(p, a, extract_all(fs, path, e))

\* Values handed to replace_all and replace_all_literal.
Values == {<<>>, <<"a">>, <<"$", "1">>, <<"b", "$", "1">>}

\* A call of a replacing function, with arguments a and outcome r.
ReplaceCall(p, a, r) ==
    /\ args' = [args EXCEPT ![p] = a]
    /\ pre' = [pre EXCEPT ![p] = fs]
    /\ repeat' = [repeat EXCEPT ![p] = FALSE]
    /\ io' = [io EXCEPT ![p] = r.io]
    /\ wrote' = [wrote EXCEPT ![p] = IF r.node = fs THEN 0 ELSE r.node.mtime]
    /\ result' = [result EXCEPT ![p] = r.res]
    /\ fs' = r.node
    /\ pc' = [pc EXCEPT ![p] = "done"]
    /\ ncalls' = ncalls + 1
    /\ UNCHANGED <<active, f_lines>>

ReplaceAll(p) ==
    /\ CanCall(p)
    /\ \E path \in Paths, e \in Exprs, value \in Values :
        LET a == [op |-> "replace_all", path |-> path, lines |-> <<>>, rx |-> e,
                  offset |-> 0, value |-> value]
        IN ReplaceCall(p, a, replace_all(fs, path, e, value, FALSE))

ReplaceAllLiteral(p) ==
    /\ CanCall(p)
    /\ \E path \in Paths, e \in Exprs, value \in Values :
        LET a == [op |-> "replace_all_literal", path |-> path, lines |-> <<>>, rx |-> e,
                  offset |-> 0, value |-> value]
        IN ReplaceCall(p, a, replace_all(fs, path, e, value, TRUE))

Next == \E p \in Procs : InsertLines(p) \/ InsertWrite(p) \/ InsertAgain(p)
NextReplace == \E p \in Procs : ReplaceAll(p) \/ ReplaceAllLiteral(p)
NextExtract == \E p \in Procs : Extract(p) \/ ExtractAll(p)

Spec == Init /\ [][Next]_vars
SpecConc == InitConc /\ [][Next]_vars
SpecExtract == Init /\ [][NextExtract]_vars
SpecReplace == Init /\ [][NextReplace]_vars

\* ----------------------------------------------------------------- claims
LinesOf(node) == ReadLinesText(node.text)
Compiles(p) == RegexNew(args[p].rx).ok
PathOk(p) == PathError(pre[p], args[p].path) = ""
Lowest(S) == CHOOSE i \in S : \A j \in S : i <= j

\* The indices (from 0) of the lines of F that expression e matches.
Matching(e, F) == {i \in 0..(Len(F) - 1) : IsMatch(RegexNew(e), F[i + 1])}
\* F[0..t) ++ L ++ F[t..), with t no further than the end of F.
Splice(F, t, L) ==
    LET k == IF t > Len(F) THEN Len(F) ELSE t
    IN SubSeq(F, 1, k) \o L \o SubSeq(F, k + 1, Len(F))
Count(x, seq) == Cardinality({i \in 1..Len(seq) : seq[i] = x})
Elems(seq) == {seq[i] : i \in 1..Len(seq)}

\* An insert_lines call of p has ended: it returned, or it panicked.
InsertEnded(p) ==
    p \in active /\ pc[p] \in {"done", "panicked"} /\ args[p].op = "insert_lines"
\* The index insert_lines aims at: the lowest matching index plus the offset.
Target(p) == Lowest(Matching(args[p].rx, LinesOf(pre[p]))) + args[p].offset
HasAnchor(p) ==
    Compiles(p) /\ PathOk(p) /\ Matching(args[p].rx, LinesOf(pre[p])) # {}

\* C1: with a matching line and 0 <= anchor + offset <= len(F), anchor the
\* lowest matching index, insert_lines succeeds and leaves the file's lines
\* equal to F[0..anchor+offset) ++ L ++ F[anchor+offset..).
C1_InsertAtAnchor ==
    \A p \in Procs :
        (InsertEnded(p) /\ HasAnchor(p) /\ 0 <= Target(p)
            /\ Target(p) <= Len(LinesOf(pre[p])))
        => /\ result[p] = Ok(<<>>)
           /\ LinesOf(fs) = Splice(LinesOf(pre[p]), Target(p), args[p].lines)

\* Two different lines went in after the first of several matching lines.
C1_Witness ==
    /\ InsertEnded(1) /\ result[1].ok /\ HasAnchor(1)
    /\ Cardinality(Matching(args[1].rx, LinesOf(pre[1]))) >= 2
    /\ args[1].offset = 1
    /\ Len(args[1].lines) = 2 /\ args[1].lines[1] # args[1].lines[2]
    /\ LinesOf(fs) = <<LinesOf(pre[1])[1]>> \o args[1].lines \o Tail(LinesOf(pre[1]))

\* C2: when no line of the file matches, or anchor + offset is below 0,
\* insert_lines fails with InsertLocationNotFound, asks no write of the
\* store and leaves the file as it was.
C2_LocationNotFound ==
    \A p \in Procs :
        (InsertEnded(p) /\ Compiles(p) /\ PathOk(p)
            /\ (~HasAnchor(p) \/ Target(p) < 0))
        => /\ result[p] = Err("InsertLocationNotFound")
           /\ io[p] = <<"read_lines">>
           /\ fs = pre[p]

\* The anchor is there, and the offset leads below 0.
C2_Witness ==
    /\ InsertEnded(1) /\ HasAnchor(1) /\ Target(1) < 0
    /\ args[1].lines # <<>>
    /\ result[1] = Err("InsertLocationNotFound")
    /\ fs = pre[1]

\* C5: an expression that does not compile makes insert_lines fail with the
\* pattern error, with no read and no write of the store, the file
\* unchanged, whatever the state of the path.
C5_PatternErrorFirst ==
    \A p \in Procs :
        (InsertEnded(p) /\ ~Compiles(p))
        => /\ result[p] = Err("FailedToExtractString")
           /\ io[p] = <<>>
           /\ fs = pre[p]

\* The expression does not compile and the path is one no read would accept.
C5_Witness ==
    /\ InsertEnded(1) /\ ~Compiles(1) /\ ~PathOk(1)
    /\ result[1] = Err("FailedToExtractString")

\* C6, as claimed: a successful insert_lines call that repeats the successful
\* call before it leaves the file as that call left it.
C6_Idempotent ==
    \A p \in Procs :
        (InsertEnded(p) /\ repeat[p] /\ result[p].ok) => fs.text = pre[p].text

\* C6, amended: a successful insert_lines call that repeats the successful
\* call before it inserts the lines once more, so the file is as the first
\* call left it exactly when there are no lines to insert.
C6_RepeatInsertsAgain ==
    \A p \in Procs :
        (InsertEnded(p) /\ repeat[p] /\ result[p].ok)
        => /\ Len(LinesOf(fs)) = Len(LinesOf(pre[p])) + Len(args[p].lines)
           /\ (fs.text = pre[p].text) <=> (args[p].lines = <<>>)

\* A repeated call put its line into the file a second time.
C6_Witness ==
    /\ InsertEnded(1) /\ repeat[1] /\ result[1].ok
    /\ Len(args[1].lines) = 1
    /\ Count(args[1].lines[1], LinesOf(fs)) >= 2
    /\ fs.text # pre[1].text

\* C8, as claimed: with a matching line and anchor + offset beyond the number
\* of lines, insert_lines succeeds and the new lines follow the last line.
C8_PastEndAppends ==
    \A p \in Procs :
        (InsertEnded(p) /\ HasAnchor(p) /\ Target(p) > Len(LinesOf(pre[p])))
        => /\ result[p] = Ok(<<>>)
           /\ LinesOf(fs) = LinesOf(pre[p]) \o args[p].lines

BothInserted(p, q) ==
    /\ p # q
    /\ InsertEnded(p) /\ result[p].ok
    /\ InsertEnded(q) /\ result[q].ok

\* C9: of two successful insert_lines calls on one path, when the second
\* read what the first wrote and wrote last, the file holds the lines of the
\* file as the first call read it and the lines of both calls.
C9_SerialKeepsBoth ==
    \A p, q \in Procs :
        (BothInserted(p, q) /\ pre[q].mtime = wrote[p] /\ fs.mtime = wrote[q])
        => LET F == LinesOf(pre[p])
               G == LinesOf(fs)
           IN /\ Len(G) = Len(F) + Len(args[p].lines) + Len(args[q].lines)
              /\ \A x \in Elems(G) \cup Elems(F) \cup NewLines :
                    Count(x, G) = Count(x, F) + Count(x, args[p].lines)
                                  + Count(x, args[q].lines)

\* A lost update: both calls read the same file and returned success, and
\* the file holds the line of the one that wrote last and not the other's.
C9_Witness ==
    /\ BothInserted(1, 2)
    /\ pre[1] = pre[2] /\ fs.mtime = wrote[2]
    /\ Len(args[1].lines) = 1 /\ Len(args[2].lines) = 1
    /\ args[1].lines[1] \notin Elems(LinesOf(fs))
    /\ args[2].lines[1] \in Elems(LinesOf(fs))
    /\ Len(LinesOf(fs)) = Len(LinesOf(pre[1])) + 1

\* An extract call of p returned.
ExtractDone(p) == p \in active /\ pc[p] = "done" /\ args[p].op = "extract"
ExtractAllDone(p) == p \in active /\ pc[p] = "done" /\ args[p].op = "extract_all"
\* The positions of the text at which a match starts.
Starts(rx, text) == {s \in 1..(Len(text) + 1) : MatchAt(rx, text, s).ok}
HasGroup1(cap) == Len(cap) >= 2 /\ cap[2].some

\* C3: extract returns the text of group 1 of the leftmost match, and fails
\* with FailedToExtractString when there is no match or the leftmost match
\* has no group 1 that took part.
C3_ExtractFirstGroup ==
    \A p \in Procs :
        (ExtractDone(p) /\ Compiles(p) /\ PathOk(p))
        => LET text == pre[p].text
               rx == RegexNew(args[p].rx)
               S == Starts(rx, text)
           IN IF S = {} THEN result[p] = Err("FailedToExtractString")
              ELSE LET cap == MatchAt(rx, text, Lowest(S)).caps
                   IN IF HasGroup1(cap)
                      THEN result[p] = Ok(GroupText(text, cap[2]))
                      ELSE result[p] = Err("FailedToExtractString")

\* extract failed on a first match without group 1 though a later match
\* has one.
C3_Witness ==
    /\ ExtractDone(1) /\ Compiles(1) /\ PathOk(1)
    /\ result[1] = Err("FailedToExtractString")
    /\ LET caps == CapturesIter(RegexNew(args[1].rx), pre[1].text)
       IN /\ Len(caps) >= 2
          /\ ~HasGroup1(caps[1])
          /\ \E k \in 2..Len(caps) : HasGroup1(caps[k])

HasSubgroups(rx) == \E k \in 1..Len(rx.pieces) : rx.pieces[k].group

\* Per match: group 0 of a pattern without subgroups, and of a pattern with
\* subgroups only those subgroups that took part.
RECURSIVE SubgroupsOnly(_, _, _)
SubgroupsOnly(text, caps, subgroups) ==
    IF caps = <<>> THEN <<>>
    ELSE (IF subgroups THEN GroupTexts(text, Tail(Head(caps)))
          ELSE <<GroupText(text, Head(caps)[1])>>)
         \o SubgroupsOnly(text, Tail(caps), subgroups)

\* C4, as claimed: extract_all returns, match by match, the whole match when
\* the pattern has no subgroups and only the subgroups that took part, without
\* group 0, when it has.
C4_SubgroupsOnly ==
    \A p \in Procs :
        (ExtractAllDone(p) /\ Compiles(p) /\ PathOk(p))
        => LET rx == RegexNew(args[p].rx)
           IN result[p] = Ok(SubgroupsOnly(pre[p].text, CapturesIter(rx, pre[p].text),
                                           HasSubgroups(rx)))

\* A replace_all or replace_all_literal call of p returned.
ReplaceDone(p) ==
    p \in active /\ pc[p] = "done" /\ args[p].op \in {"replace_all", "replace_all_literal"}

\* C7: replace_all and replace_all_literal write the store exactly when the
\* substituted text differs from the text read; a pattern that compiles and
\* matches nothing succeeds with no write and the file unchanged.
C7_WriteOnlyOnChange ==
    \A p \in Procs :
        (ReplaceDone(p) /\ Compiles(p) /\ PathOk(p))
        => LET text == pre[p].text
               caps == CapturesIter(RegexNew(args[p].rx), text)
               new == Substitute(text, caps, 1, args[p].value,
                                 args[p].op = "replace_all_literal")
           IN /\ result[p] = Ok(<<>>)
              /\ new # text => /\ io[p] = <<"read_all", "write_all">>
                               /\ fs.text = new /\ fs.mtime = pre[p].mtime + 1
              /\ new = text => io[p] = <<"read_all">> /\ fs = pre[p]
              /\ caps = <<>> => io[p] = <<"read_all">> /\ fs = pre[p]

\* A pattern matched nothing in a file with text, and nothing was written.
C7_Witness ==
    /\ ReplaceDone(1) /\ Compiles(1) /\ PathOk(1)
    /\ pre[1].text # <<>> /\ args[1].value # <<>>
    /\ CapturesIter(RegexNew(args[1].rx), pre[1].text) = <<>>
    /\ result[1].ok /\ io[1] = <<"read_all">> /\ fs = pre[1]

====
